---- MODULE Spec2Model ----
(***************************************************************************)
(* bike-tracker: the connection registry, the broadcast fan-out, the       *)
(* position ingress and the two store queries of the server.               *)
(*                                                                         *)
(* Two builds of the server exist in the repository: the persisted one     *)
(* (src/main.go, lines 1-238: SQLite store, savePosition before the        *)
(* broadcast) and the in-memory one (src/unnamed/part_000: no store).      *)
(* The variable `variant` says which build is running. (src/main.go, lines  *)
(* 240-354, is an earlier build in which each viewer's handler sends       *)
(* random positions to its own connection: it has no registry and no       *)
(* ingress, and is not modelled.)                                          *)
(*                                                                         *)
(* Every HTTP handler runs in its own goroutine (net/http), so handlers    *)
(* interleave at every statement that touches shared state.                *)
(***************************************************************************)
EXTENDS Integers, Sequences, FiniteSets, TLC

\* ------------------------------------------------------------------ bounds
NumConns == 2        \* viewer connections that ever attempt an upgrade
NumHandlers == 2     \* handlePosition goroutines that may run at the same time
MaxRequests == 2     \* POST /position requests that get past the decode in a run
MaxClock == 2        \* the last second of the server clock in a run (it starts at 1)

Conns == 1..NumConns
Handlers == 1..NumHandlers
NoOne == 0           \* no holder of rw.w; no current connection

\* ------------------------------------------------------------ request input
\* A JSON field of the request body: absent, a number, or a value of another
\* JSON type (a string where a number is expected).
Absent == [kind |-> "absent", val |-> 0]
Num(n) == [kind |-> "number", val |-> n]
Str == [kind |-> "string", val |-> 0]

\* The request bodies the producer sends.
Bodies ==
  { [wellformed |-> TRUE,  latitude |-> Num(52), longitude |-> Num(13), timestamp |-> Num(7)],
    [wellformed |-> TRUE,  latitude |-> Num(52), longitude |-> Absent,  timestamp |-> Absent],
    [wellformed |-> TRUE,  latitude |-> Str,     longitude |-> Num(13), timestamp |-> Absent],
    [wellformed |-> FALSE, latitude |-> Absent,  longitude |-> Absent,  timestamp |-> Absent] }

Methods == {"POST", "GET"}

\* var position GPSPosition: the zero value every field starts with.
ZeroPosition == [latitude |-> 0, longitude |-> 0, timestamp |-> 0]

\* encoding/json into one struct field: a number is stored, an absent key
\* leaves the field as it was, any other JSON type is an UnmarshalTypeError.
DecodeField(f, old) == IF f.kind = "number" THEN f.val ELSE old

\* json.NewDecoder(r.Body).Decode(&position): err # nil on a syntax error or a
\* field of the wrong JSON type; absent keys are no error.
DecodeErr(body) ==
  \/ ~body.wellformed
  \/ body.latitude.kind = "string"
  \/ body.longitude.kind = "string"
  \/ body.timestamp.kind = "string"

Decode(body) ==
  [latitude  |-> DecodeField(body.latitude, ZeroPosition.latitude),
   longitude |-> DecodeField(body.longitude, ZeroPosition.longitude),
   timestamp |-> DecodeField(body.timestamp, ZeroPosition.timestamp)]

\* ------------------------------------------------------------------- state
VARIABLES
  variant,      \* "persisted" (src/main.go) or "memory" (src/unnamed/part_000)
  crashed,      \* the Go runtime has thrown a fatal error: the process is gone
  now,          \* the server clock (unix seconds) as of its latest read
  connections,  \* var connections map[*websocket.Conn]bool: its key set
  wmutex,       \* connMutex: the viewer that owns rw.w (Lock called), or NoOne
  readers,      \* connMutex: the handlers that hold it in shared mode (RLock)
  cstate,       \* per connection: "none" (no upgrade yet), "open", "closed"
  vpc,          \* per connection: where its handleWebSocket goroutine is
  hpc,          \* per handler: where its handlePosition goroutine is
  req,          \* per handler: the request it serves: id, position, the answer
                \* written so far (code; "pending": none yet), and as history
                \* the clock value read at main.go:123 / part_000:107 (ingress)
                \* and whether the body carried both coordinates (supplied)
  cur,          \* per handler: the loop variable conn of broadcastPosition
  visited,      \* per handler: the keys its range loop has produced so far
  snapshot,     \* per handler: the key set when its RLock was granted (history)
  closedAtStart,\* per handler: the members that were closed by then and that
                \* its loop has not written to yet (history)
  wfailed,      \* per handler: the connections whose write failed in this call
  panicking,    \* per handler: a panic is unwinding its goroutine
  nreq,         \* requests that got past the decode so far; a request's id
  store,        \* table positions: rows in rowid order
  recv,         \* per connection: the messages its peer was sent, in order
  reply,        \* the latest answer of GET /api/history or /api/last-position
  writing       \* per handler: the connection its WriteJSON call is inside, or NoOne

vars == <<variant, crashed, now, connections, wmutex, readers, cstate, vpc, hpc,
          req, cur, visited, snapshot, closedAtStart, wfailed, panicking, nreq,
          store, recv, reply, writing>>

registryVars == <<connections, wmutex, readers>>
viewerVars == <<cstate, vpc>>
handlerVars ==
  <<hpc, req, cur, visited, snapshot, closedAtStart, wfailed, panicking, writing>>
requestVars == <<nreq>>
effectVars == <<store, recv>>

NoRequest ==
  [id |-> 0, position |-> ZeroPosition, code |-> "none", ingress |-> 0,
   supplied |-> FALSE]

\* No GET request has been answered. An answer is its status, the kind of
\* JSON value in its body ("null", "array", "object"; "text" for an error
\* message), the positions in that value, and as history the number of rows
\* the store held when the query ran.
NoReply ==
  [endpoint |-> "none", status |-> "none", kind |-> "none", list |-> <<>>,
   rows |-> 0]

Init ==
  /\ variant \in {"persisted", "memory"}
  /\ crashed = FALSE
  /\ now = 1
  /\ connections = {}
  /\ wmutex = NoOne
  /\ readers = {}
  /\ cstate = [c \in Conns |-> "none"]
  /\ vpc = [c \in Conns |-> "upgrade"]
  /\ hpc = [h \in Handlers |-> "idle"]
  /\ req = [h \in Handlers |-> NoRequest]
  /\ cur = [h \in Handlers |-> NoOne]
  /\ visited = [h \in Handlers |-> {}]
  /\ snapshot = [h \in Handlers |-> {}]
  /\ closedAtStart = [h \in Handlers |-> {}]
  /\ wfailed = [h \in Handlers |-> {}]
  /\ panicking = [h \in Handlers |-> FALSE]
  /\ nreq = 0
  /\ store = <<>>
  /\ recv = [c \in Conns |-> <<>>]
  /\ reply = NoReply
  /\ writing = [h \in Handlers |-> NoOne]

\* The clock is read at two places only (time.Now() in handlePosition,
\* CURRENT_TIMESTAMP in the INSERT), so the seconds that pass between two
\* reads are added when the next read happens: Elapsed is what may be added.
Elapsed == {dt \in 0..1 : now + dt <= MaxClock}

\* --------------------------------------------------------------- connMutex
\* sync.RWMutex. Lock() takes rw.w and announces the writer: from then on new
\* RLock() calls block; the writer proceeds once the readers that were inside
\* have left. RLock() is granted while no writer holds or has announced.
CanRLock == wmutex = NoOne
CanLockAnnounce == wmutex = NoOne
\* Mutant of LockGranted: Lock() does not wait for the readers inside.
LockGrantedOverReaders(c) == wmutex = c

LockGranted(c) == wmutex = c /\ readers = {}

\* ----------------------------------------------- handleWebSocket (viewer c)
\* upgrader.Upgrade: on error the handler returns, nothing else has happened.
WsUpgrade(c) ==
  /\ ~crashed
  /\ vpc[c] = "upgrade"
  /\ \/ /\ cstate' = [cstate EXCEPT ![c] = "open"]
        /\ vpc' = [vpc EXCEPT ![c] = "register"]
     \/ /\ vpc' = [vpc EXCEPT ![c] = "done"]
        /\ UNCHANGED cstate
  /\ UNCHANGED <<variant, reply, crashed, now, registryVars, handlerVars, requestVars,
                 effectVars>>

\* connMutex.Lock() before the insert, and before the delete of the deferred
\* cleanup: the call takes rw.w and then waits for the readers to leave.
WsLock(c) ==
  /\ ~crashed
  /\ vpc[c] \in {"register", "deregister"}
  /\ CanLockAnnounce
  /\ wmutex' = c
  /\ vpc' = [vpc EXCEPT ![c] = IF vpc[c] = "register" THEN "insert" ELSE "delete"]
  /\ UNCHANGED <<variant, reply, crashed, now, connections, readers, cstate,
                 handlerVars, requestVars, effectVars>>

\* connections[conn] = true; connMutex.Unlock()
WsRegister(c) ==
  /\ ~crashed
  /\ vpc[c] = "insert"
  /\ LockGranted(c)
  /\ connections' = connections \cup {c}
  /\ wmutex' = NoOne
  /\ vpc' = [vpc EXCEPT ![c] = "read"]
  /\ UNCHANGED <<variant, reply, crashed, now, readers, cstate, handlerVars,
                 requestVars, effectVars>>

\* Mutant of WsReadFail: the handler returns from the read loop without the
\* deferred cleanup.
WsReadFailNoCleanup(c) ==
  /\ ~crashed
  /\ vpc[c] = "read"
  /\ vpc' = [vpc EXCEPT ![c] = "done"]
  /\ UNCHANGED <<variant, reply, crashed, now, registryVars, cstate, handlerVars,
                 requestVars, effectVars>>

\* conn.ReadMessage() returns an error: the peer went away, the transport
\* failed, or the connection was closed locally. (A message that is read is
\* dropped and changes nothing.) The loop breaks and the deferred function runs.
WsReadFail(c) ==
  /\ ~crashed
  /\ vpc[c] = "read"
  /\ vpc' = [vpc EXCEPT ![c] = "close"]
  /\ UNCHANGED <<variant, reply, crashed, now, registryVars, cstate, handlerVars,
                 requestVars, effectVars>>

\* deferred: conn.Close(), before the lock is asked for.
WsClose(c) ==
  /\ ~crashed
  /\ vpc[c] = "close"
  /\ cstate' = [cstate EXCEPT ![c] = "closed"]
  /\ vpc' = [vpc EXCEPT ![c] = "deregister"]
  /\ UNCHANGED <<variant, reply, crashed, now, registryVars, handlerVars, requestVars,
                 effectVars>>

\* Mutant of WsDeregister: the cleanup unlocks without the delete.
WsDeregisterNoDelete(c) ==
  /\ ~crashed
  /\ vpc[c] = "delete"
  /\ LockGranted(c)
  /\ wmutex' = NoOne
  /\ vpc' = [vpc EXCEPT ![c] = "done"]
  /\ UNCHANGED <<variant, reply, crashed, now, connections, readers, cstate,
                 handlerVars, requestVars, effectVars>>

\* Mutant of WsDeregister: removing a key that is not in the map is a fault
\* that ends the process.
WsDeregisterAbsentFaults(c) ==
  /\ ~crashed
  /\ vpc[c] = "delete"
  /\ LockGranted(c)
  /\ connections' = connections \ {c}
  /\ crashed' = (c \notin connections)
  /\ wmutex' = NoOne
  /\ vpc' = [vpc EXCEPT ![c] = "done"]
  /\ UNCHANGED <<variant, reply, now, readers, cstate, handlerVars, requestVars,
                 effectVars>>

\* deferred: delete(connections, conn); connMutex.Unlock(). delete of a key
\* that is not in the map is a no-op.
WsDeregister(c) ==
  /\ ~crashed
  /\ vpc[c] = "delete"
  /\ LockGranted(c)
  /\ connections' = connections \ {c}
  /\ wmutex' = NoOne
  /\ vpc' = [vpc EXCEPT ![c] = "done"]
  /\ UNCHANGED <<variant, reply, crashed, now, readers, cstate, handlerVars,
                 requestVars, effectVars>>

\* ------------------------------------------------ handlePosition (handler h)
\* The early returns of handlePosition: "405" for a method other than POST,
\* "400" when Decode returns an error, "ok" when the request goes on.
Rejection(method, body) ==
  IF method # "POST" THEN "405"
  ELSE IF DecodeErr(body) THEN "400"
  ELSE "ok"

\* Mutant of Proceeds: the return after http.Error(w, "Invalid JSON", 400) is
\* missing, so a body that does not decode goes on.
ProceedsPastDecodeErr(method, body) == method = "POST"

\* The handler goes past its two early returns.
Proceeds(method, body) == Rejection(method, body) = "ok"

\* Mutant of Stamped: the timestamp the client sent is kept.
StampedKeepsClient(position, t) == position

\* position.Timestamp = time.Now().Unix()
Stamped(position, t) == [position EXCEPT !.timestamp = t]

\* The status line of a response is written once: a later write of the header
\* does not replace it.
Respond(st, code) == IF st = "pending" THEN code ELSE st

\* Mutant of AfterStamp: the persisted build broadcasts without saving.
AfterStampSkipsSave == "rlock"

\* What follows the timestamp: savePosition in the persisted build, the
\* broadcast at once in the in-memory build.
AfterStamp == IF variant = "persisted" THEN "save" ELSE "rlock"

\* The body carries both latitude and longitude as numbers (history).
Supplied(body) ==
  /\ body.wellformed
  /\ body.latitude.kind = "number"
  /\ body.longitude.kind = "number"

\* The handler has written its answer (or panicked) and is about to return.
Answer(h, code) ==
  /\ hpc' = [hpc EXCEPT ![h] = "return"]
  /\ req' = [req EXCEPT ![h].code = Respond(@, code)]

\* A request arrives and the handler runs up to the timestamp: the method
\* check, the decode and time.Now() touch nothing that is shared.
HandlePosition(h, method, body, dt) ==
  LET rej  == Rejection(method, body)
      goes == Proceeds(method, body)
      t    == now + dt
      r    == [id |-> IF goes THEN nreq + 1 ELSE 0,
               position |-> IF goes THEN Stamped(Decode(body), t) ELSE ZeroPosition,
               code |-> IF rej = "ok" THEN "pending" ELSE rej,
               ingress |-> IF goes THEN t ELSE 0,
               supplied |-> Supplied(body)]
  IN
  /\ ~crashed
  /\ hpc[h] = "idle"
  /\ goes => nreq < MaxRequests
  /\ nreq' = IF goes THEN nreq + 1 ELSE nreq
  /\ req' = [req EXCEPT ![h] = r]
  /\ hpc' = [hpc EXCEPT ![h] = IF goes THEN AfterStamp ELSE "return"]
  /\ now' = IF goes THEN t ELSE now
  /\ UNCHANGED <<variant, reply, crashed, registryVars, viewerVars, cur, visited,
                 snapshot, closedAtStart, wfailed, panicking, writing, effectVars>>

\* The handler returns (after the log line of an accepted request): its
\* locals are gone and the goroutine serves the next request.
HandleReturn(h) ==
  /\ ~crashed
  /\ hpc[h] = "return"
  /\ hpc' = [hpc EXCEPT ![h] = "idle"]
  /\ req' = [req EXCEPT ![h] = NoRequest]
  /\ cur' = [cur EXCEPT ![h] = NoOne]
  /\ visited' = [visited EXCEPT ![h] = {}]
  /\ snapshot' = [snapshot EXCEPT ![h] = {}]
  /\ closedAtStart' = [closedAtStart EXCEPT ![h] = {}]
  /\ wfailed' = [wfailed EXCEPT ![h] = {}]
  /\ panicking' = [panicking EXCEPT ![h] = FALSE]
  /\ UNCHANGED <<variant, reply, crashed, now, registryVars, viewerVars, writing,
                 requestVars, effectVars>>

\* The row INSERT INTO positions adds: id is the next rowid, created_at is the
\* store's CURRENT_TIMESTAMP (seconds). req, ingress and supplied are history.
Row(r, t) ==
  [rowid |-> Len(store) + 1,
   latitude |-> r.position.latitude, longitude |-> r.position.longitude,
   timestamp |-> r.position.timestamp, created_at |-> t,
   req |-> r.id, ingress |-> r.ingress, supplied |-> r.supplied]

\* Mutant of SavePosition: the error of the insert is logged and the handler
\* goes on to the broadcast.
SavePositionErrIgnored(h, dt) ==
  /\ ~crashed
  /\ hpc[h] = "save"
  /\ \/ /\ store' = Append(store, Row(req[h], now + dt))
        /\ now' = now + dt
     \/ /\ dt = 0
        /\ UNCHANGED <<store, now>>
  /\ hpc' = [hpc EXCEPT ![h] = "rlock"]
  /\ UNCHANGED <<variant, reply, crashed, registryVars, viewerVars, req, cur, visited,
                 snapshot, closedAtStart, wfailed, panicking, writing, nreq, recv>>

\* savePosition(position); on error the handler answers 500 and returns.
SavePosition(h, dt) ==
  /\ ~crashed
  /\ hpc[h] = "save"
  /\ \/ /\ store' = Append(store, Row(req[h], now + dt))
        /\ now' = now + dt
        /\ hpc' = [hpc EXCEPT ![h] = "rlock"]
        /\ UNCHANGED req
     \/ /\ dt = 0
        /\ Answer(h, "500")
        /\ UNCHANGED <<store, now>>
  /\ UNCHANGED <<variant, reply, crashed, registryVars, viewerVars, cur, visited,
                 snapshot, closedAtStart, wfailed, panicking, writing, nreq, recv>>

\* ---------------------------------------------- broadcastPosition (handler h)
\* connMutex.RLock()
BroadcastRLock(h) ==
  /\ ~crashed
  /\ hpc[h] = "rlock"
  /\ CanRLock
  /\ readers' = readers \cup {h}
  /\ snapshot' = [snapshot EXCEPT ![h] = connections]
  /\ closedAtStart' =
       [closedAtStart EXCEPT ![h] = {c \in connections : cstate[c] = "closed"}]
  /\ hpc' = [hpc EXCEPT ![h] = "range"]
  /\ UNCHANGED <<variant, reply, crashed, now, connections, wmutex, viewerVars, req,
                 cur, visited, wfailed, panicking, writing, requestVars, effectVars>>

\* for conn := range connections: the keys still to come. A key deleted before
\* it is reached is not produced.
RangeRest(h) == connections \ visited[h]

\* The next key, in no particular order; the loop ends when none is left.
BroadcastRange(h) ==
  /\ ~crashed
  /\ hpc[h] = "range"
  /\ IF RangeRest(h) = {}
       THEN /\ hpc' = [hpc EXCEPT ![h] = "runlock"]
            /\ closedAtStart' = [closedAtStart EXCEPT ![h] = {}]
            /\ UNCHANGED <<cur, visited>>
       ELSE \E c \in RangeRest(h) :
              /\ cur' = [cur EXCEPT ![h] = c]
              /\ visited' = [visited EXCEPT ![h] = @ \cup {c}]
              /\ hpc' = [hpc EXCEPT ![h] = "write"]
              /\ UNCHANGED closedAtStart
  /\ UNCHANGED <<variant, reply, crashed, now, registryVars, viewerVars, req,
                 snapshot, wfailed, panicking, writing, requestVars, effectVars>>

\* conn.WriteJSON(position) is entered.
BroadcastWriteBegin(h) ==
  /\ ~crashed
  /\ hpc[h] = "write"
  /\ writing' = [writing EXCEPT ![h] = cur[h]]
  /\ hpc' = [hpc EXCEPT ![h] = "writing"]
  /\ UNCHANGED <<variant, reply, crashed, now, registryVars, viewerVars, req, cur,
                 visited, snapshot, closedAtStart, wfailed, panicking, requestVars, effectVars>>

\* The JSON message WriteJSON sends. req, ingress and supplied are history.
Message(r) ==
  [latitude |-> r.position.latitude, longitude |-> r.position.longitude,
   timestamp |-> r.position.timestamp,
   req |-> r.id, ingress |-> r.ingress, supplied |-> r.supplied]

\* Another goroutine is inside WriteJSON on the same connection. gorilla
\* allows one writer at a time; its flushFrame detects a second one at best
\* effort and panics ("concurrent write to websocket connection").
ConcurrentWrite(h) == \E g \in Handlers \ {h} : writing[g] = cur[h]

\* conn.WriteJSON(position) returns: nil (the peer was sent the message) only
\* on a connection that is open, an error on any connection (the transport
\* failed, or the connection was closed), or it panics on a concurrent write.
BroadcastWriteEnd(h) ==
  /\ ~crashed
  /\ hpc[h] = "writing"
  /\ writing' = [writing EXCEPT ![h] = NoOne]
  /\ closedAtStart' = [closedAtStart EXCEPT ![h] = @ \ {cur[h]}]
  /\ \/ /\ cstate[cur[h]] = "open"
        /\ recv' = [recv EXCEPT ![cur[h]] = Append(@, Message(req[h]))]
        /\ hpc' = [hpc EXCEPT ![h] = "range"]
        /\ UNCHANGED <<wfailed, panicking>>
     \/ /\ wfailed' = [wfailed EXCEPT ![h] = @ \cup {cur[h]}]
        /\ hpc' = [hpc EXCEPT ![h] = "close"]
        /\ UNCHANGED <<recv, panicking>>
     \/ /\ ConcurrentWrite(h)
        /\ panicking' = [panicking EXCEPT ![h] = TRUE]
        /\ hpc' = [hpc EXCEPT ![h] = "runlock"]
        /\ UNCHANGED <<recv, wfailed>>
  /\ UNCHANGED <<variant, reply, crashed, now, registryVars, viewerVars, req, cur,
                 visited, snapshot, requestVars, store>>

\* conn.Close() after a failed write.
BroadcastClose(h) ==
  /\ ~crashed
  /\ hpc[h] = "close"
  /\ cstate' = [cstate EXCEPT ![cur[h]] = "closed"]
  /\ hpc' = [hpc EXCEPT ![h] = "delete"]
  /\ UNCHANGED <<variant, reply, crashed, now, registryVars, vpc, req, cur, visited,
                 snapshot, closedAtStart, wfailed, panicking, writing, requestVars, effectVars>>

\* Another goroutine is at a map operation of its own range loop (the next
\* key, or a delete) while this one deletes: an unsynchronised map write. The
\* runtime detects it at best effort and throws ("concurrent map iteration and
\* map write", "concurrent map writes"), which ends the process.
MapRace(h) == \E g \in Handlers \ {h} : hpc[g] \in {"range", "delete"}

\* Mutant of BroadcastDelete: after a failed write the whole map is cleared.
BroadcastDeleteAll(h) ==
  /\ ~crashed
  /\ hpc[h] = "delete"
  /\ connections' = {}
  /\ hpc' = [hpc EXCEPT ![h] = "range"]
  /\ UNCHANGED <<variant, reply, crashed, now, wmutex, readers, viewerVars, req,
                 cur, visited, snapshot, closedAtStart, wfailed, panicking,
                 writing, requestVars, effectVars>>

\* delete(connections, conn), with connMutex held in shared mode only.
BroadcastDelete(h) ==
  /\ ~crashed
  /\ hpc[h] = "delete"
  /\ \/ /\ connections' = connections \ {cur[h]}
        /\ hpc' = [hpc EXCEPT ![h] = "range"]
        /\ UNCHANGED crashed
     \/ /\ MapRace(h)
        /\ crashed' = TRUE
        /\ UNCHANGED <<connections, hpc>>
  /\ UNCHANGED <<variant, reply, now, wmutex, readers, viewerVars, req, cur, visited,
                 snapshot, closedAtStart, wfailed, panicking, writing, requestVars, effectVars>>

\* deferred connMutex.RUnlock(): it runs when the loop is over and when a
\* panic unwinds the call. After a normal return handlePosition writes 200
\* {"status": "ok"} (nothing shared is touched in between); net/http recovers a
\* handler's panic and drops the request without an answer.
BroadcastRUnlock(h) ==
  /\ ~crashed
  /\ hpc[h] = "runlock"
  /\ readers' = readers \ {h}
  /\ Answer(h, IF panicking[h] THEN "aborted" ELSE "200")
  /\ UNCHANGED <<variant, reply, crashed, now, connections, wmutex, viewerVars, cur,
                 visited, snapshot, closedAtStart, wfailed, panicking, writing, nreq, effectVars>>

\* ------------------------------------------------------------ specification
\* The bodies that carry both coordinates, and the bodies Decode rejects.
WholeBodies == {b \in Bodies : Supplied(b) \/ DecodeErr(b)}

\* Spec: every interleaving of the viewers with NumHandlers concurrent
\* requests, all within one second of the clock, the producer sending whole
\* or undecodable bodies.
Next ==
  \/ \E c \in Conns : WsUpgrade(c)
  \/ \E c \in Conns : WsLock(c)
  \/ \E c \in Conns : WsRegister(c)
  \/ \E c \in Conns : WsReadFail(c)
  \/ \E c \in Conns : WsClose(c)
  \/ \E c \in Conns : WsDeregister(c)
  \/ \E h \in Handlers, m \in Methods, b \in WholeBodies : HandlePosition(h, m, b, 0)
  \/ \E h \in Handlers : SavePosition(h, 0)
  \/ \E h \in Handlers : BroadcastRLock(h)
  \/ \E h \in Handlers : BroadcastRange(h)
  \/ \E h \in Handlers : BroadcastWriteBegin(h)
  \/ \E h \in Handlers : BroadcastWriteEnd(h)
  \/ \E h \in Handlers : BroadcastClose(h)
  \/ \E h \in Handlers : BroadcastDelete(h)
  \/ \E h \in Handlers : BroadcastRUnlock(h)
  \/ \E h \in Handlers : HandleReturn(h)

Spec == Init /\ [][Next]_vars

\* SpecIngress: the requests are served one after the other by one goroutine,
\* with every body and the clock advancing between its reads.
Ingress == {h \in Handlers : \A g \in Handlers : h <= g}

NextIngress ==
  \/ \E c \in Conns : WsUpgrade(c)
  \/ \E c \in Conns : WsLock(c)
  \/ \E c \in Conns : WsRegister(c)
  \/ \E c \in Conns : WsReadFail(c)
  \/ \E c \in Conns : WsClose(c)
  \/ \E c \in Conns : WsDeregister(c)
  \/ \E h \in Ingress, m \in Methods, b \in Bodies, dt \in Elapsed :
       HandlePosition(h, m, b, dt)
  \/ \E h \in Ingress, dt \in Elapsed : SavePosition(h, dt)
  \/ \E h \in Ingress : BroadcastRLock(h)
  \/ \E h \in Ingress : BroadcastRange(h)
  \/ \E h \in Ingress : BroadcastWriteBegin(h)
  \/ \E h \in Ingress : BroadcastWriteEnd(h)
  \/ \E h \in Ingress : BroadcastClose(h)
  \/ \E h \in Ingress : BroadcastDelete(h)
  \/ \E h \in Ingress : BroadcastRUnlock(h)
  \/ \E h \in Ingress : HandleReturn(h)

SpecIngress == Init /\ [][NextIngress]_vars

\* ------------------------------------------------------------------ claims
\* The messages a connection's peer was sent, as a set.
Received(c) == {recv[c][i] : i \in DOMAIN recv[c]}
Rows == {store[i] : i \in DOMAIN store}

\* The broadcastPosition call of handler h has returned (also by a panic).
BroadcastReturned(h) == hpc[h] = "return" /\ req[h].code \in {"200", "aborted"}

\* The connection was sent the position of the request handler h serves.
Sent(c, h) == \E m \in Received(c) : m.req = req[h].id

\* C1 (as claimed): when a write of a broadcastPosition call has failed, every
\* connection whose write failed is out of the registry once the call has
\* returned, and once the call is over (it has returned, or the process has
\* ended) every other connection that was registered when the call began and
\* is still open has been sent the position of that call. (A connection
\* whose own write panicked is left out.)
C1_FailureIsolated ==
  \A h \in Handlers :
    wfailed[h] # {} =>
      /\ BroadcastReturned(h) => wfailed[h] \cap connections = {}
      /\ (BroadcastReturned(h) \/ crashed) =>
           \A d \in snapshot[h] \ wfailed[h] :
             (cstate[d] = "open" /\ ~(panicking[h] /\ cur[h] = d)) => Sent(d, h)

\* C2 (as claimed): WriteJSON is called only on a connection that was in the
\* registry when the call's lock was granted, and never on a connection that
\* has since been removed from the registry.
C2_NoWriteAfterRemoval ==
  [][\A h \in Handlers :
       (hpc[h] = "write" /\ hpc'[h] = "writing") =>
         (cur[h] \in snapshot[h] /\ cur[h] \in connections)]_vars

\* C3 (as claimed): the registry set changes only in a step of a task that
\* holds connMutex exclusively (rw.w taken, no reader inside).
C3_ExclusiveMutation ==
  [][connections' # connections => (wmutex # NoOne /\ readers = {})]_vars

\* C4 (as claimed): no two WriteJSON calls are in progress on one connection
\* at the same time.
C4_WritesSerialized ==
  \A h, g \in Handlers :
    (h # g /\ writing[h] # NoOne) => writing[h] # writing[g]

\* The handler is inside broadcastPosition.
InBroadcast(h) ==
  hpc[h] \in {"rlock", "range", "write", "writing", "close", "delete", "runlock"}

\* C5: in the persisted build, every message a viewer was sent has its row in
\* the store, and a handler that has reached broadcastPosition has inserted
\* the row of its request: the insert comes before the first write.
C5_PersistBeforeBroadcast ==
  variant = "persisted" =>
    /\ \A c \in Conns : \A m \in Received(c) :
         \E r \in Rows :
           /\ r.req = m.req
           /\ r.latitude = m.latitude
           /\ r.longitude = m.longitude
           /\ r.timestamp = m.timestamp
    /\ \A h \in Handlers :
         (InBroadcast(h) \/ writing[h] # NoOne) => \E r \in Rows : r.req = req[h].id

C5_Witness ==
  /\ variant = "persisted"
  /\ \E c \in Conns : recv[c] # <<>>

\* C6: in the persisted build, the step in which the insert fails answers 500
\* and returns, leaves the registry, the connections and what the viewers were
\* sent as they were, and does not end the process; a request answered 500 is
\* never written to a connection, and its handler goes on to return.
C6_SaveFailure ==
  /\ [][\A h \in Handlers :
          (variant = "persisted" /\ hpc[h] = "save" /\ hpc'[h] # "save"
             /\ store' = store) =>
            /\ req'[h].code = "500"
            /\ hpc'[h] = "return"
            /\ ~crashed'
            /\ UNCHANGED <<connections, recv, writing, cstate, wmutex, readers>>]_vars
  /\ [](\A h \in Handlers :
          req[h].code = "500" =>
            /\ hpc[h] = "return"
            /\ writing[h] = NoOne
            /\ \A c \in Conns : ~Sent(c, h)
            /\ \A r \in Rows : r.req # req[h].id
            /\ ~crashed => ENABLED HandleReturn(h))

C6_Witness ==
  \E h \in Handlers :
    /\ req[h].code = "500"
    /\ connections # {}

\* C7: the step that rejects a request with 405 or 400 returns at once and
\* leaves the store, the registry, the connections and what the viewers were
\* sent as they were; a handler that has answered 405 or 400 does nothing more.
C7_RejectionNoEffect ==
  /\ [][\A h \in Handlers :
          (hpc[h] = "idle" /\ req'[h].code \in {"405", "400"}) =>
            /\ hpc'[h] = "return"
            /\ UNCHANGED <<store, recv, connections, cstate, wmutex, readers,
                           writing, nreq>>]_vars
  /\ [](\A h \in Handlers : req[h].code \in {"405", "400"} => hpc[h] = "return")

C7_Witness ==
  \E h, g \in Handlers :
    /\ req[h].code = "405"
    /\ req[g].code = "400"
    /\ connections # {}

\* C8 (as claimed): nothing is persisted or sent to a viewer for a body that
\* lacks latitude or longitude.
C8_RequiredFields ==
  /\ \A r \in Rows : r.supplied
  /\ \A c \in Conns : \A m \in Received(c) : m.supplied

\* C9: every row and every message carries as timestamp the clock value read
\* at ingress, not the client's, and the row and the messages of one request
\* carry the same latitude, longitude and timestamp.
C9_ServerTimestamp ==
  /\ \A r \in Rows : r.timestamp = r.ingress /\ r.ingress \in 1..now
  /\ \A c \in Conns : \A m \in Received(c) :
       /\ m.timestamp = m.ingress
       /\ m.ingress \in 1..now
       /\ \A r \in Rows :
            r.req = m.req =>
              /\ r.latitude = m.latitude
              /\ r.longitude = m.longitude
              /\ r.timestamp = m.timestamp
       /\ \A d \in Conns : \A k \in Received(d) : k.req = m.req => k = m

\* A request whose body carried the client timestamp 7 (the body with both
\* coordinates) was stamped after the clock had advanced, saved and sent.
C9_Witness ==
  \E c \in Conns : \E m \in Received(c) : \E r \in Rows :
    /\ r.req = m.req
    /\ m.longitude = 13
    /\ m.ingress > 1

\* C10 (as claimed): the registry is exactly the set of open connections.
C10_RegistryExact == connections = {c \in Conns : cstate[c] = "open"}

\* C10 (amended): the registry holds only upgraded connections; an open
\* connection whose handler has registered it is a member; a closed connection
\* is a member only while the task that closed it has its delete still ahead
\* (the cleanup, or the broadcast that pruned it); a connection whose handler
\* has returned is not a member.
C10_RegistryBounded ==
  /\ \A c \in connections : cstate[c] # "none"
  /\ \A c \in connections :
       cstate[c] = "closed" =>
         \/ vpc[c] \in {"deregister", "delete"}
         \/ \E h \in Handlers : hpc[h] = "delete" /\ cur[h] = c
  /\ \A c \in Conns :
       (cstate[c] = "open" /\ vpc[c] \in {"read", "close"}) => c \in connections
  /\ \A c \in Conns : vpc[c] = "done" => c \notin connections

C10_Witness ==
  \E c \in connections : \E d \in Conns :
    /\ cstate[c] = "closed"
    /\ cstate[d] = "open" /\ vpc[d] = "register"

\* ----------------------------------------------------------------- fairness
\* The scheduler runs every goroutine that can take a step; sync.RWMutex
\* hands the lock to a waiting Lock() once the readers inside have left, and
\* no RLock() overtakes it. Requests, upgrades and read failures come from
\* outside and are not forced.
ViewerFair ==
  \A c \in Conns :
    /\ WF_vars(WsLock(c))
    /\ WF_vars(WsRegister(c))
    /\ WF_vars(WsClose(c))
    /\ WF_vars(WsDeregister(c))

\* The steps of a handler other than the return of WriteJSON.
HandlerFair ==
  \A h \in Handlers :
    /\ WF_vars(SavePosition(h, 0))
    /\ WF_vars(BroadcastRLock(h))
    /\ WF_vars(BroadcastRange(h))
    /\ WF_vars(BroadcastWriteBegin(h))
    /\ WF_vars(BroadcastClose(h))
    /\ WF_vars(BroadcastDelete(h))
    /\ WF_vars(BroadcastRUnlock(h))
    /\ WF_vars(HandleReturn(h))

\* Every WriteJSON call returns (the peer takes the bytes, or the write fails).
WritesTerminate == \A h \in Handlers : WF_vars(BroadcastWriteEnd(h))

\* SpecLive: the in-memory build (its registry and broadcast code is that of
\* the persisted build, line for line) with NumHandlers concurrent requests,
\* every one of them accepted, under fair scheduling and with connection
\* writes that terminate.
InitLive == Init /\ variant = "memory"

FullBodies == {b \in Bodies : Supplied(b)}

NextLive ==
  \/ \E c \in Conns : WsUpgrade(c)
  \/ \E c \in Conns : WsLock(c)
  \/ \E c \in Conns : WsRegister(c)
  \/ \E c \in Conns : WsReadFail(c)
  \/ \E c \in Conns : WsClose(c)
  \/ \E c \in Conns : WsDeregister(c)
  \/ \E h \in Handlers, b \in FullBodies : HandlePosition(h, "POST", b, 0)
  \/ \E h \in Handlers : BroadcastRLock(h)
  \/ \E h \in Handlers : BroadcastRange(h)
  \/ \E h \in Handlers : BroadcastWriteBegin(h)
  \/ \E h \in Handlers : BroadcastWriteEnd(h)
  \/ \E h \in Handlers : BroadcastClose(h)
  \/ \E h \in Handlers : BroadcastDelete(h)
  \/ \E h \in Handlers : BroadcastRUnlock(h)
  \/ \E h \in Handlers : HandleReturn(h)

SpecLive ==
  InitLive /\ [][NextLive]_vars /\ ViewerFair /\ HandlerFair /\ WritesTerminate

\* The handleWebSocket goroutine of c is past the failed read.
ReadFailed(c) == vpc[c] \in {"close", "deregister", "delete", "done"}

\* C11: once the read of a registered connection has failed, the connection
\* is eventually closed, out of the registry and its handler has returned
\* (unless the process ends first, which closes every connection), and from
\* the failed read on a connection that is out of the registry is never put
\* back.
C11_ReadFailureCloses ==
  /\ \A c \in Conns :
       (vpc[c] = "close" /\ c \in connections) ~>
         (crashed \/ (c \notin connections /\ cstate[c] = "closed" /\ vpc[c] = "done"))
  /\ [][\A c \in Conns :
          (ReadFailed(c) /\ c \notin connections) => c \notin connections']_vars
  /\ [](\A c \in Conns : vpc[c] = "done" => c \notin connections)

\* A connection's read failed while a broadcast held the lock in shared mode;
\* the cleanup has run to its end.
C11_Witness ==
  \E c \in Conns :
    /\ vpc[c] = "done"
    /\ cstate[c] = "closed"
    /\ \E h \in Handlers : c \in snapshot[h]

\* C12 (as claimed): a broadcastPosition call never enters WriteJSON on a
\* connection that was already closed when the call took the lock.
C12_NoWriteAfterClose ==
  \A h \in Handlers : hpc[h] = "writing" => cur[h] \notin closedAtStart[h]

\* ---------------------------------------------------------------- slow peer
\* The peer whose socket takes no more bytes: a WriteJSON call on its
\* connection returns only once the connection has been closed.
SlowPeer == CHOOSE c \in Conns : \A d \in Conns : c <= d

WritesTerminateExceptSlow ==
  \A h \in Handlers :
    WF_vars((cur[h] # SlowPeer \/ cstate[SlowPeer] = "closed") /\ BroadcastWriteEnd(h))

\* SpecSlowPeer: SpecLive, except that a write to the slow peer may block for
\* as long as its connection is open.
SpecSlowPeer ==
  InitLive /\ [][NextLive]_vars /\ ViewerFair /\ HandlerFair
    /\ WritesTerminateExceptSlow

\* Handler g is inside a WriteJSON call on the slow peer.
BlockedOnSlow(g) == writing[g] = SlowPeer /\ cstate[SlowPeer] = "open"

\* Connection d is registered and open, and its handler is in its read loop.
Live(d) == d \in connections /\ cstate[d] = "open" /\ vpc[d] = "read"

\* C13 (as claimed): when a request is accepted while another handler's write
\* to the slow peer is blocked, every other live registered connection is
\* eventually sent that request's position, unless the blocked write returns,
\* the connection stops being live, or the process ends.
C13_SlowPeerNoStall ==
  \A h \in Handlers : \A d \in Conns \ {SlowPeer} : \A i \in 1..MaxRequests :
    (/\ req[h].id = i
     /\ hpc[h] = "rlock"
     /\ \E g \in Handlers \ {h} : BlockedOnSlow(g)
     /\ Live(d))
      ~> (\/ \E m \in Received(d) : m.req = i
          \/ ~Live(d)
          \/ \A g \in Handlers : ~BlockedOnSlow(g)
          \/ crashed)

\* C14: the delete of the cleanup removes its own connection and nothing
\* else, closes nothing, sends nothing and does not end the process; when the
\* connection is already out of the registry (a broadcast has pruned it) the
\* registry is left as it was.
C14_DeregisterIdempotent ==
  [][\A c \in Conns :
       (vpc[c] = "delete" /\ vpc'[c] = "done") =>
         /\ connections' = connections \ {c}
         /\ c \notin connections => connections' = connections
         /\ (connections' \ {c}) = connections'
         /\ ~crashed'
         /\ UNCHANGED <<cstate, recv, readers, hpc>>]_vars

\* A broadcast pruned a connection after a failed write, and the cleanup of
\* that connection then ran its delete while another viewer was registered.
C14_Witness ==
  \E c \in Conns : \E h \in Handlers :
    /\ c \in wfailed[h]
    /\ req[h].code = "200"
    /\ vpc[c] = "done"
    /\ connections # {}

\* How many times connection d was sent the position of request i.
Deliveries(d, i) == Cardinality({k \in DOMAIN recv[d] : recv[d][k].req = i})

\* The range loop of handler h is over and no write of the call has failed
\* (nor panicked); the read lock is still held.
CleanBroadcastEnd(h) ==
  hpc[h] = "runlock" /\ wfailed[h] = {} /\ ~panicking[h]

\* C15 (as claimed): at the end of a broadcastPosition call in which no write
\* failed, every connection that was in the registry when the call began has
\* been sent the position exactly once, no other connection has been sent it,
\* and the registry is what it was when the call began; and the cleanup of a
\* registered connection makes the registry smaller by exactly one.
C15_ExactDelivery ==
  /\ [](\A h \in Handlers :
          CleanBroadcastEnd(h) =>
            /\ \A d \in Conns :
                 Deliveries(d, req[h].id) = IF d \in snapshot[h] THEN 1 ELSE 0
            /\ connections = snapshot[h])
  /\ [][\A c \in Conns :
          (vpc[c] = "delete" /\ vpc'[c] = "done" /\ c \in connections) =>
            Cardinality(connections') = Cardinality(connections) - 1]_vars

\* ------------------------------------------------------ position store reads
\* SELECT latitude, longitude, timestamp: the columns a query returns of a row.
Pos(r) ==
  [latitude |-> r.latitude, longitude |-> r.longitude, timestamp |-> r.timestamp]

\* ORDER BY created_at: the orders in which the query may return the rows.
\* created_at has a resolution of one second and the query names no other
\* sort key, so SQL leaves the order of rows of the same second open.
OrderByCreatedAt ==
  {p \in [DOMAIN store -> DOMAIN store] :
     /\ \A i, j \in DOMAIN store : i # j => p[i] # p[j]
     /\ \A i, j \in DOMAIN store :
          i < j => store[p[i]].created_at <= store[p[j]].created_at}

\* ORDER BY created_at DESC LIMIT 1: the rows the query may return.
LastByCreatedAt ==
  {i \in DOMAIN store :
     \A j \in DOMAIN store : store[j].created_at <= store[i].created_at}

\* json.NewEncoder(w).Encode(positions): positions is declared without a
\* value (var positions []GPSPosition) and stays nil when no row is appended;
\* encoding/json writes a nil slice as null, any other slice as an array.
EncodeSlice(list) == IF list = <<>> THEN "null" ELSE "array"

Answered(endpoint, status, kind, list) ==
  [endpoint |-> endpoint, status |-> status, kind |-> kind, list |-> list,
   rows |-> Len(store)]

\* handleHistory: 405 unless GET, 500 when the query fails, else the rows in
\* the order of the query, written with the default status 200.
HandleHistory(method) ==
  /\ ~crashed
  /\ variant = "persisted"
  /\ \/ /\ method # "GET"
        /\ reply' = Answered("history", "405", "text", <<>>)
     \/ /\ method = "GET"
        /\ reply' = Answered("history", "500", "text", <<>>)
     \/ /\ method = "GET"
        /\ \E p \in OrderByCreatedAt :
             LET positions == [i \in DOMAIN store |-> Pos(store[p[i]])]
             IN reply' = Answered("history", "200", EncodeSlice(positions), positions)
  /\ UNCHANGED <<variant, crashed, now, registryVars, viewerVars, handlerVars,
                 requestVars, effectVars>>

\* handleLastPosition: 405 unless GET, JSON null with status 200 on
\* sql.ErrNoRows, 500 on any other error, else the row of the query.
HandleLastPosition(method) ==
  /\ ~crashed
  /\ variant = "persisted"
  /\ \/ /\ method # "GET"
        /\ reply' = Answered("last", "405", "text", <<>>)
     \/ /\ method = "GET"
        /\ reply' = Answered("last", "500", "text", <<>>)
     \/ /\ method = "GET"
        /\ store = <<>>
        /\ reply' = Answered("last", "200", "null", <<>>)
     \/ /\ method = "GET"
        /\ \E i \in LastByCreatedAt :
             reply' = Answered("last", "200", "object", <<Pos(store[i])>>)
  /\ UNCHANGED <<variant, crashed, now, registryVars, viewerVars, handlerVars,
                 requestVars, effectVars>>

\* SpecStore: the persisted build with no viewer connected: NumHandlers
\* concurrent POST /position requests with every body, the clock advancing
\* between its reads, and the two GET endpoints at any moment.
InitStore == Init /\ variant = "persisted"

NextStore ==
  \/ \E h \in Handlers, m \in Methods, b \in Bodies, dt \in Elapsed :
       HandlePosition(h, m, b, dt)
  \/ \E h \in Handlers, dt \in Elapsed : SavePosition(h, dt)
  \/ \E h \in Handlers : BroadcastRLock(h)
  \/ \E h \in Handlers : BroadcastRange(h)
  \/ \E h \in Handlers : BroadcastRUnlock(h)
  \/ \E h \in Handlers : HandleReturn(h)
  \/ \E m \in Methods : HandleHistory(m)
  \/ \E m \in Methods : HandleLastPosition(m)

SpecStore == InitStore /\ [][NextStore]_vars

\* C16 (as claimed): a successful answer of handleLastPosition on a store that
\* is not empty is the position of the latest insert, and a successful answer
\* of handleHistory is every stored position in the order of the inserts.
C16_LastIsLatest ==
  (reply.status = "200" /\ reply.rows > 0) =>
    /\ reply.endpoint = "last" => reply.list = <<Pos(store[reply.rows])>>
    /\ reply.endpoint = "history" =>
         reply.list = [i \in 1..reply.rows |-> Pos(store[i])]

\* C17 (as claimed): on an empty store a successful answer of handleHistory
\* is an empty JSON array and a successful answer of handleLastPosition is
\* JSON null.
C17_EmptyStore ==
  (reply.status = "200" /\ reply.rows = 0) =>
    /\ reply.endpoint = "history" => (reply.kind = "array" /\ reply.list = <<>>)
    /\ reply.endpoint = "last" => reply.kind = "null"

\* The request handler h serves was decoded and, in the persisted build, its
\* row was inserted.
Accepted(h) ==
  /\ req[h].id # 0
  /\ variant = "persisted" => \E r \in Rows : r.req = req[h].id

\* C18 (as claimed): a request that was decoded and (in the persisted build)
\* inserted has, when its handler returns, been answered 200, whatever
\* writes of its broadcast failed; and it is not answered before its broadcast
\* is over.
C18_ProducerAnswered200 ==
  \A h \in Handlers :
    Accepted(h) =>
      /\ hpc[h] = "return" => req[h].code = "200"
      /\ InBroadcast(h) => req[h].code = "pending"

\* The write of handler h to connection c has returned an error and h is at
\* the given statement of the pruning that follows.
Pruning(h, c, at) == cur[h] = c /\ c \in wfailed[h] /\ hpc[h] = at

\* C19: a connection is removed from the registry only by the cleanup that
\* follows its own failed read or by the broadcast whose write to it failed,
\* and it is closed only by one of the two; a connection that is open and
\* whose handler is in its read loop is in the registry.
C19_OwnFailureOnly ==
  /\ [][\A c \in Conns :
          (c \in connections /\ c \notin connections') =>
            \/ vpc[c] = "delete"
            \/ \E h \in Handlers : Pruning(h, c, "delete")]_vars
  /\ [][\A c \in Conns :
          (cstate[c] = "open" /\ cstate'[c] # "open") =>
            \/ vpc[c] = "close"
            \/ \E h \in Handlers : Pruning(h, c, "close")]_vars
  /\ [](\A c \in Conns :
          (vpc[c] = "read" /\ cstate[c] = "open") => c \in connections)

\* A broadcast pruned one connection after its write failed, and the other
\* connection it wrote to is still open and registered.
C19_Witness ==
  \E h \in Handlers : \E a \in wfailed[h] : \E b \in snapshot[h] \ {a} :
    /\ a \notin connections
    /\ cstate[a] = "closed"
    /\ b \in connections
    /\ cstate[b] = "open"
    /\ b \in visited[h]

\* C20: while a broadcastPosition call holds the lock the registry changes
\* only by the pruning of a broadcast that holds it, and so stays within what
\* each of them found when it took the lock; a connection that was not in the
\* registry then is never sent the position of that call; and the insert and
\* the delete of handleWebSocket take effect only when no broadcast holds the
\* lock.
C20_NoRegistrationDuringBroadcast ==
  /\ [][(readers # {} /\ connections' # connections) =>
          \E h \in readers :
            /\ Pruning(h, cur[h], "delete")
            /\ connections' = connections \ {cur[h]}]_vars
  /\ [](\A h \in readers : connections \subseteq snapshot[h])
  /\ [](\A h \in Handlers : \A c \in Conns \ snapshot[h] : ~Sent(c, h))
  /\ [][\A c \in Conns :
          (vpc[c] \in {"insert", "delete"} /\ vpc'[c] # vpc[c]) =>
            (readers = {} /\ \A h \in Handlers : ~InBroadcast(h) \/ hpc[h] = "rlock")]_vars

\* A viewer has called Lock() for its registration and waits: every handler
\* is inside a broadcast that began before, and one of them has already sent
\* its position to a registered connection.
C20_Witness ==
  \E c \in Conns :
    /\ vpc[c] = "insert"
    /\ wmutex = c
    /\ readers = Handlers
    /\ \E h \in Handlers : \E d \in snapshot[h] : Sent(d, h)

====
